---- MODULE Spec2Model ----
(***************************************************************************)
(* A model of the PocketTopo ".top" binary decoder (src/src/parser.rs).    *)
(*                                                                         *)
(* The decoder is a chain of nom parsers over an immutable byte buffer.    *)
(* A parser takes the remaining input and returns the rest of the input    *)
(* and a value, or an error.  Here the remaining input is the pair         *)
(* (input, pos): the whole buffer and the offset of the first unread       *)
(* byte.  Bytes are the integers 0..255.                                   *)
(*                                                                         *)
(* TLC's integers are 32 bit signed.  Wider machine integers are kept in   *)
(* limbs: a u32 is [hi, lo] with 16 bit limbs, a 64 bit usize is a         *)
(* function 0..63 -> {0,1} of its bits, an i64 is a sign and a magnitude   *)
(* in limbs of base 10^7.                                                  *)
(***************************************************************************)
EXTENDS Integers, Sequences, FiniteSets, TLC

VARIABLES
    input,            \* the byte buffer handed to parse
    overflow_checks,  \* build profile: TRUE = arithmetic overflow panics
    pc,               \* the stage of parse_internal about to run, or an end state
    pos,              \* offset of the first unread byte (the `input` rebinding)
    trips, shots, references, mapping, outline, sideview,  \* the Document's fields
    error,            \* the ParseError returned by parse
    spans,            \* history: <<stage, from, to>> of every stage attempted
    out               \* result of the function applied by a unit specification

vars == <<input, overflow_checks, pc, pos, trips, shots, references, mapping,
          outline, sideview, error, spans, out>>

-----------------------------------------------------------------------------
(* Bit operations on naturals, bit by bit.                                 *)

RECURSIVE BitAnd(_, _)
BitAnd(a, b) ==
    IF a = 0 \/ b = 0 THEN 0
    ELSE (a % 2) * (b % 2) + 2 * BitAnd(a \div 2, b \div 2)

RECURSIVE BitXor(_, _)
BitXor(a, b) ==
    IF a = 0 THEN b
    ELSE IF b = 0 THEN a
    ELSE ((a + b) % 2) + 2 * BitXor(a \div 2, b \div 2)

RECURSIVE Pow2(_)
Pow2(n) == IF n = 0 THEN 1 ELSE 2 * Pow2(n - 1)

-----------------------------------------------------------------------------
(* Parser results: nom's IResult.  kind is "Ok", "Error" (recoverable,     *)
(* nom::Err::Error), "Failure" (nom::Err::Failure) or "Panic" (the thread  *)
(* unwinds; no value is returned).                                         *)

NoValue == <<>>

\* ParseError values: a tag and the payload the variant carries.
InvalidColor(c)        == [tag |-> "InvalidColor", arg |-> <<c>>]
InvalidHeader(found)   == [tag |-> "InvalidHeader", arg |-> found]
UndefinedStation       == [tag |-> "UndefinedStation", arg |-> <<>>]
UnknownError           == [tag |-> "UnknownError", arg |-> <<>>]
UnsupportedVersion(v)  == [tag |-> "UnsupportedVersion", arg |-> <<v>>]
\* std::str::Utf8Error: valid_up_to and error_len (0 stands for None).
Utf8Error(upto, len)   == [tag |-> "Utf8Error", arg |-> <<upto, len>>]
NoError                == [tag |-> "None", arg |-> <<>>]

Ok(p, v)   == [kind |-> "Ok", pos |-> p, val |-> v, err |-> NoError]
Error(e)   == [kind |-> "Error", pos |-> 0, val |-> NoValue, err |-> e]
Failure(e) == [kind |-> "Failure", pos |-> 0, val |-> NoValue, err |-> e]
Panic      == [kind |-> "Panic", pos |-> 0, val |-> NoValue, err |-> NoError]

\* `let (input, x) = r?; F`: what is not Ok is returned as it is, else the
\* rest F goes on from r.pos with r.val.
Bind(r, F(_)) == IF r.kind # "Ok" THEN r ELSE F(r)

\* impl nom::error::ParseError for ParseError: every nom ErrorKind becomes
\* UnknownError; append keeps the error already there; `or` is the trait's
\* default, which keeps the later error.
from_error_kind == UnknownError
append(other) == other
or(self, other) == other

-----------------------------------------------------------------------------
(* nom primitives (the `complete` flavour).                                *)

Remaining(in, p) == Len(in) - p

\* bytes::complete::tag
tag(t, in, p) ==
    IF Remaining(in, p) >= Len(t) /\ SubSeq(in, p + 1, p + Len(t)) = t
    THEN Ok(p + Len(t), t)
    ELSE Error(from_error_kind)

\* bytes::complete::take with a count that fits a TLC integer
take(n, in, p) ==
    IF Remaining(in, p) >= n
    THEN Ok(p + n, SubSeq(in, p + 1, p + n))
    ELSE Error(from_error_kind)

le_u8(in, p) ==
    IF Remaining(in, p) >= 1 THEN Ok(p + 1, in[p + 1]) ELSE Error(from_error_kind)

le_i16(in, p) ==
    IF Remaining(in, p) >= 2
    THEN LET b0 == in[p + 1]
             b1 == in[p + 2]
         IN  Ok(p + 2, b0 + 256 * (IF b1 >= 128 THEN b1 - 256 ELSE b1))
    ELSE Error(from_error_kind)

le_i32(in, p) ==
    IF Remaining(in, p) >= 4
    THEN LET b0 == in[p + 1]
             b1 == in[p + 2]
             b2 == in[p + 3]
             b3 == in[p + 4]
         IN  Ok(p + 4, (b0 + 256 * b1 + 65536 * b2)
                        + 16777216 * (IF b3 >= 128 THEN b3 - 256 ELSE b3))
    ELSE Error(from_error_kind)

\* A u32 in two 16 bit limbs.
U32(h, l) == [hi |-> h, lo |-> l]

le_u32(in, p) ==
    IF Remaining(in, p) >= 4
    THEN Ok(p + 4, U32(in[p + 3] + 256 * in[p + 4], in[p + 1] + 256 * in[p + 2]))
    ELSE Error(from_error_kind)

-----------------------------------------------------------------------------
(* Station identifiers (parse_station_id).                                 *)

StationNone      == <<"None">>
Plain(x)         == <<"Plain", x>>
MajorMinor(a, b) == <<"MajorMinor", a, b>>

\* const UNDEFINED: u32 = 0b1000...0
UNDEFINED == U32(32768, 0)

U32And(x, y) == U32(BitAnd(x.hi, y.hi), BitAnd(x.lo, y.lo))
U32Xor(x, y) == U32(BitXor(x.hi, y.hi), BitXor(x.lo, y.lo))

\* x - 1 on a u32; 0 - 1 overflows (wraps to 0xFFFFFFFF when unchecked).
U32SubOneOverflows(x) == x = U32(0, 0)
U32SubOne(x) ==
    IF x.lo > 0 THEN U32(x.hi, x.lo - 1)
    ELSE IF x.hi > 0 THEN U32(x.hi - 1, 65535)
    ELSE U32(65535, 65535)

\* Mutant of StationOf: the arm for UNDEFINED is missing.
StationOfNoUndefinedArm(x) ==
    IF U32And(x, UNDEFINED) = UNDEFINED
    THEN [panic |-> U32SubOneOverflows(U32Xor(x, UNDEFINED)) /\ overflow_checks,
          val   |-> Plain(U32SubOne(U32Xor(x, UNDEFINED)))]
    ELSE [panic |-> FALSE, val |-> MajorMinor(x.hi, x.lo)]

\* The `match station_id` of parse_station_id on the value x read.
StationOf(x) ==
    IF x = UNDEFINED THEN [panic |-> FALSE, val |-> StationNone]
    ELSE IF U32And(x, UNDEFINED) = UNDEFINED
    THEN [panic |-> U32SubOneOverflows(U32Xor(x, UNDEFINED)) /\ overflow_checks,
          val   |-> Plain(U32SubOne(U32Xor(x, UNDEFINED)))]
    ELSE [panic |-> FALSE, val |-> MajorMinor(x.hi, x.lo)]

StationResult(p, s) == IF s.panic THEN Panic ELSE Ok(p, s.val)

parse_station_id(in, p) ==
    Bind(le_u32(in, p), LAMBDA r : StationResult(r.pos, StationOf(r.val)))

-----------------------------------------------------------------------------
(* usize: a 64 bit word, bit j at index j.                                 *)

USIZE_BITS == 64

WordBits == 0 .. (USIZE_BITS - 1)
WordZero == [j \in WordBits |-> 0]
\* `*v as usize`
WordOfByte(b) == [j \in WordBits |-> IF j < 8 THEN (b \div Pow2(j)) % 2 ELSE 0]
\* `b & 0b01111111`
WordLow7(w) == [j \in WordBits |-> IF j < 7 THEN w[j] ELSE 0]
\* `b << s` for s < 64: the bits shifted out at the top are lost
WordShl(w, s) == [j \in WordBits |-> IF j >= s THEN w[j - s] ELSE 0]
WordOr(a, b) == [j \in WordBits |-> IF a[j] = 1 \/ b[j] = 1 THEN 1 ELSE 0]

\* A word is used as a length only against buffer lengths, which fit 31 bits.
WordFitsInt(w) == \A j \in WordBits : j >= 31 => w[j] = 0
RECURSIVE WordLowInt(_, _)
WordLowInt(w, j) == IF j >= 31 THEN 0 ELSE w[j] * Pow2(j) + WordLowInt(w, j + 1)
WordToInt(w) == WordLowInt(w, 0)

\* bytes::complete::take(length) with a usize length
take_usize(w, in, p) ==
    IF WordFitsInt(w) /\ Remaining(in, p) >= WordToInt(w)
    THEN Ok(p + WordToInt(w), SubSeq(in, p + 1, p + WordToInt(w)))
    ELSE Error(from_error_kind)

-----------------------------------------------------------------------------
(* The variable length integer of the .Net string format.                  *)

BIT_7_SET == 128

\* bytes::complete::take_while(|byte| byte & BIT_7_SET == BIT_7_SET): the
\* offset after the longest run of such bytes from p (never fails).
RECURSIVE take_while_bit7(_, _)
take_while_bit7(in, p) ==
    IF p < Len(in) /\ BitAnd(in[p + 1], BIT_7_SET) = BIT_7_SET
    THEN take_while_bit7(in, p + 1)
    ELSE p

\* The `for (i, v) in bytes.iter().chain(byte.iter()).enumerate()` loop, from
\* iteration i with the accumulator `result`; bs are all the bytes chained.
\* `b << (7 * i)` with 7 * i >= 64 overflows the shift: a panic when overflow
\* is checked, else the shift amount wraps modulo 64.
RECURSIVE varint_loop(_, _, _)
varint_loop(bs, i, result) ==
    IF i >= Len(bs) THEN [panic |-> FALSE, val |-> result]
    ELSE LET b1 == WordOfByte(bs[i + 1])
             b2 == WordLow7(b1)
             s  == 7 * i
         IN  IF s >= USIZE_BITS /\ overflow_checks
             THEN [panic |-> TRUE, val |-> result]
             ELSE varint_loop(bs, i + 1, WordOr(result, WordShl(b2, s % USIZE_BITS)))

VarintResult(p, l) == IF l.panic THEN Panic ELSE Ok(p, l.val)

\* q is the offset after the continuation bytes
varint_from(in, p, q) ==
    Bind(take(1, in, q),
         LAMBDA r : VarintResult(r.pos,
                        varint_loop(SubSeq(in, p + 1, q) \o r.val, 0, WordZero)))

parse_variable_length_little_endian_int(in, p) ==
    varint_from(in, p, take_while_bit7(in, p))

-----------------------------------------------------------------------------
(* std::str::from_utf8 (core's run_utf8_validation).  The result is        *)
(* <<TRUE, 0, 0>> or <<FALSE, valid_up_to, error_len>>, error_len 0 for    *)
(* None ("the input ended inside a character").                            *)

IsCont(b) == b >= 128 /\ b <= 191

Utf8Width(b) ==
    IF b < 128 THEN 1
    ELSE IF b >= 194 /\ b <= 223 THEN 2
    ELSE IF b >= 224 /\ b <= 239 THEN 3
    ELSE IF b >= 240 /\ b <= 244 THEN 4
    ELSE 0

\* The second byte of a 3 or 4 byte sequence is restricted by the first.
Utf8Second(first, next) ==
    \/ first = 224 /\ next >= 160 /\ next <= 191
    \/ first >= 225 /\ first <= 236 /\ IsCont(next)
    \/ first = 237 /\ next >= 128 /\ next <= 159
    \/ first >= 238 /\ first <= 239 /\ IsCont(next)
    \/ first = 240 /\ next >= 144 /\ next <= 191
    \/ first >= 241 /\ first <= 243 /\ IsCont(next)
    \/ first = 244 /\ next >= 128 /\ next <= 143

RECURSIVE from_utf8(_, _)
from_utf8(bs, i) ==
    IF i >= Len(bs) THEN <<TRUE, 0, 0>>
    ELSE LET first == bs[i + 1]
             w     == Utf8Width(first)
             n     == Len(bs)
         IN  IF w = 1 THEN from_utf8(bs, i + 1)
             ELSE IF w = 0 THEN <<FALSE, i, 1>>
             ELSE IF i + 1 >= n THEN <<FALSE, i, 0>>
             ELSE IF w = 2
                  THEN IF IsCont(bs[i + 2]) THEN from_utf8(bs, i + 2)
                       ELSE <<FALSE, i, 1>>
             ELSE IF ~Utf8Second(first, bs[i + 2]) THEN <<FALSE, i, 1>>
             ELSE IF i + 2 >= n THEN <<FALSE, i, 0>>
             ELSE IF ~IsCont(bs[i + 3]) THEN <<FALSE, i, 2>>
             ELSE IF w = 3 THEN from_utf8(bs, i + 3)
             ELSE IF i + 3 >= n THEN <<FALSE, i, 0>>
             ELSE IF ~IsCont(bs[i + 4]) THEN <<FALSE, i, 3>>
             ELSE from_utf8(bs, i + 4)

\* A &str is the validated byte slice itself.
Utf8Result(p, bs, u) == IF u[1] THEN Ok(p, bs) ELSE Error(Utf8Error(u[2], u[3]))

parse_string(in, p) ==
    Bind(parse_variable_length_little_endian_int(in, p), LAMBDA r1 :
    Bind(take_usize(r1.val, in, r1.pos), LAMBDA r2 :
    Utf8Result(r2.pos, r2.val, from_utf8(r2.val, 0))))

-----------------------------------------------------------------------------
(* i64: [neg, mag] with mag = <<a, b, c>> standing for                     *)
(* a * 10^14 + b * 10^7 + c, limbs below NANOSECONDS (a below 184468).            *)

\* const NANOSECONDS: i64 = 10000000 (the ticks in a second); also the base
\* of the limbs, so that ticks / NANOSECONDS and ticks % NANOSECONDS split
\* the limbs.
NANOSECONDS == 10000000

\* mag * 16 + d
MagStep(m, d) ==
    LET c1 == m[3] * 16 + d
        b1 == m[2] * 16 + (c1 \div NANOSECONDS)
        a1 == m[1] * 16 + (b1 \div NANOSECONDS)
    IN  <<a1, b1 % NANOSECONDS, c1 % NANOSECONDS>>

MagAddOne(m) ==
    LET c1 == m[3] + 1
        b1 == m[2] + (c1 \div NANOSECONDS)
        a1 == m[1] + (b1 \div NANOSECONDS)
    IN  <<a1, b1 % NANOSECONDS, c1 % NANOSECONDS>>

\* The 8 bytes as an unsigned number, most significant nibble first; with
\* inv every nibble is complemented (the one's complement of the number).
RECURSIVE MagOfBytes(_, _, _, _)
MagOfBytes(bs, k, inv, m) ==
    IF k = 0 THEN m
    ELSE LET hiN == bs[k] \div 16
             loN == bs[k] % 16
             h   == IF inv THEN 15 - hiN ELSE hiN
             l   == IF inv THEN 15 - loN ELSE loN
         IN  MagOfBytes(bs, k - 1, inv, MagStep(MagStep(m, h), l))

\* Two's complement, little endian.
I64OfBytes(bs) ==
    IF bs[8] >= 128
    THEN [neg |-> TRUE, mag |-> MagAddOne(MagOfBytes(bs, 8, TRUE, <<0, 0, 0>>))]
    ELSE [neg |-> FALSE, mag |-> MagOfBytes(bs, 8, FALSE, <<0, 0, 0>>)]

le_i64(in, p) ==
    IF Remaining(in, p) >= 8
    THEN Ok(p + 8, I64OfBytes(SubSeq(in, p + 1, p + 8)))
    ELSE Error(from_error_kind)

-----------------------------------------------------------------------------
(* parse_datetime.  A NaiveDateTime is its Unix timestamp: seconds as      *)
(* <<hi, lo>> for hi * 10^7 + lo with 0 <= lo < 10^7 (hi is signed), and   *)
(* the nanoseconds within the second.                                      *)

\* const SECONDS_FROM_DOT_NET_EPOCH_TO_UNIX_EPOCH: i64 = 62135596800
EPOCH_HI == 6213
EPOCH_LO == 5596800

\* (ticks / NANOSECONDS) - SECONDS_FROM_DOT_NET_EPOCH_TO_UNIX_EPOCH; the
\* division truncates toward zero.  Neither step can overflow an i64.
DatetimeSeconds(ticks) ==
    LET a == ticks.mag[1]
        b == ticks.mag[2]
    IN  IF ~ticks.neg
        THEN IF b >= EPOCH_LO THEN <<a - EPOCH_HI, b - EPOCH_LO>>
             ELSE <<a - EPOCH_HI - 1, b - EPOCH_LO + NANOSECONDS>>
        ELSE LET lo == (b + EPOCH_LO) % NANOSECONDS
                 hi == a + EPOCH_HI + ((b + EPOCH_LO) \div NANOSECONDS)
             IN  IF lo = 0 THEN <<-hi, 0>> ELSE <<-hi - 1, NANOSECONDS - lo>>

\* (ticks % NANOSECONDS) as u32: the remainder has the sign of ticks, and a
\* negative one is reinterpreted modulo 2^32.
DatetimeNsecs(ticks) ==
    LET c == ticks.mag[3]
    IN  IF ~ticks.neg \/ c = 0 THEN U32(c \div 65536, c % 65536)
        ELSE U32(65535 - ((c - 1) \div 65536), 65535 - ((c - 1) % 65536))

\* chrono's NaiveDateTime::from_timestamp panics for nsecs >= 2_000_000_000
\* (= 30517 * 65536 + 37888); the seconds of every i64 tick count are in
\* chrono's range of dates.
NsecsInvalid(n) == n.hi > 30517 \/ (n.hi = 30517 /\ n.lo >= 37888)

\* NaiveDateTime::from_timestamp(seconds, nsecs)
from_timestamp(p, seconds, nsecs) ==
    IF NsecsInvalid(nsecs) THEN Panic
    ELSE Ok(p, [seconds |-> seconds, nsecs |-> nsecs.hi * 65536 + nsecs.lo])

parse_datetime(in, p) ==
    Bind(le_i64(in, p),
         LAMBDA r : from_timestamp(r.pos, DatetimeSeconds(r.val), DatetimeNsecs(r.val)))

-----------------------------------------------------------------------------
(* Records.                                                                *)

None    == <<"None">>
Some(x) == <<"Some", x>>

parse_trip(in, p) ==
    Bind(parse_datetime(in, p), LAMBDA r1 :
    Bind(parse_string(in, r1.pos), LAMBDA r2 :
    Bind(le_i16(in, r2.pos), LAMBDA r3 :
    Ok(r3.pos, [time |-> r1.val, comment |-> r2.val, declination |-> r3.val]))))

\* ShotFlags: const HAS_COMMENT = (1 << 1)
HAS_COMMENT == 2

\* bitflags' contains: (self.bits & other.bits) == other.bits
contains(bits, other) == BitAnd(bits, other) = other

\* The fixed part of a shot: from, to, distance, azimuth, inclination,
\* flags, roll, trip_index.
parse_shot_fixed(in, p) ==
    Bind(parse_station_id(in, p), LAMBDA r1 :
    Bind(parse_station_id(in, r1.pos), LAMBDA r2 :
    Bind(le_i32(in, r2.pos), LAMBDA r3 :
    Bind(le_i16(in, r3.pos), LAMBDA r4 :
    Bind(le_i16(in, r4.pos), LAMBDA r5 :
    Bind(le_u8(in, r5.pos), LAMBDA r6 :
    Bind(le_u8(in, r6.pos), LAMBDA r7 :
    Bind(le_i16(in, r7.pos), LAMBDA r8 :
    Ok(r8.pos, [from |-> r1.val, to |-> r2.val, distance |-> r3.val,
                azimuth |-> r4.val, inclination |-> r5.val, flags |-> r6.val,
                roll |-> r7.val, trip_index |-> r8.val, comment |-> None])))))))))

\* Mutant of shot_has_comment: the gate tests bit 0, FLIPPED.
shot_has_comment_flipped(flags) == contains(flags, 1)

\* flags.contains(ShotFlags::HAS_COMMENT)
shot_has_comment(flags) == contains(flags, HAS_COMMENT)

\* The `if flags.contains(..) { parse_string } else { None }` after the fixed part f.
shot_comment(in, f) ==
    IF shot_has_comment(f.val.flags)
    THEN Bind(parse_string(in, f.pos),
              LAMBDA s : Ok(s.pos, [f.val EXCEPT !.comment = Some(s.val)]))
    ELSE Ok(f.pos, f.val)

parse_shot(in, p) ==
    Bind(parse_shot_fixed(in, p), LAMBDA f : shot_comment(in, f))

parse_reference(in, p) ==
    Bind(parse_station_id(in, p), LAMBDA r1 :
    Bind(le_i64(in, r1.pos), LAMBDA r2 :
    Bind(le_i64(in, r2.pos), LAMBDA r3 :
    Bind(le_i32(in, r3.pos), LAMBDA r4 :
    Bind(parse_string(in, r4.pos), LAMBDA r5 :
    Ok(r5.pos, [station |-> r1.val, east |-> r2.val, north |-> r3.val,
                altitude |-> r4.val, comment |-> r5.val]))))))

parse_point(in, p) ==
    Bind(le_i32(in, p), LAMBDA r1 :
    Bind(le_i32(in, r1.pos), LAMBDA r2 :
    Ok(r2.pos, [x |-> r1.val, y |-> r2.val])))

parse_mapping(in, p) ==
    Bind(parse_point(in, p), LAMBDA r1 :
    Bind(le_i32(in, r1.pos), LAMBDA r2 :
    Ok(r2.pos, [origin |-> r1.val, scale |-> r2.val])))

-----------------------------------------------------------------------------
(* multi::length_count(le_u32, g): a count, then that many records.  g is  *)
(* named by kind.                                                          *)

parse_record(kind, in, p) ==
    CASE kind = "trip"      -> parse_trip(in, p)
      [] kind = "shot"      -> parse_shot(in, p)
      [] kind = "reference" -> parse_reference(in, p)
      [] kind = "point"     -> parse_point(in, p)

\* Mutant of U32Above: the range is 0..=count.
U32AboveInclusive(count, i) ==
    \/ i \div 65536 < count.hi
    \/ i \div 65536 = count.hi /\ i % 65536 <= count.lo

\* Mutant of U32Above: the count is cut to its low 16 bits.
U32AboveLow16(count, i) == count.lo > i

\* i < count, the test of `for _ in 0..count`, for a loop index i that fits
\* a TLC integer: the limbs of i against those of count.
U32Above(count, i) ==
    \/ i \div 65536 < count.hi
    \/ i \div 65536 = count.hi /\ i % 65536 < count.lo

\* One iteration's result r: push and go on, or return the error.
RECURSIVE count_loop(_, _, _, _, _, _)
count_step(kind, in, i, count, res, r) ==
    IF r.kind = "Ok"
    THEN count_loop(kind, in, r.pos, i + 1, count, Append(res, r.val))
    ELSE IF r.kind = "Error" THEN Error(append(r.err))
    ELSE r

\* `for _ in 0..count`, from iteration i at offset p with res collected
count_loop(kind, in, p, i, count, res) ==
    IF ~U32Above(count, i) THEN Ok(p, res)
    ELSE count_step(kind, in, i, count, res, parse_record(kind, in, p))

length_count(kind, in, p) ==
    Bind(le_u32(in, p), LAMBDA c : count_loop(kind, in, c.pos, 0, c.val, <<>>))

parse_trips(in, p) == length_count("trip", in, p)
parse_shots(in, p) == length_count("shot", in, p)
parse_references(in, p) == length_count("reference", in, p)

-----------------------------------------------------------------------------
(* Drawing elements.                                                       *)

\* The `match color` of parse_polygon; "" for a byte that is no color.
ColorOf(c) ==
    CASE c = 1 -> "Black"
      [] c = 2 -> "Gray"
      [] c = 3 -> "Brown"
      [] c = 4 -> "Blue"
      [] c = 5 -> "Red"
      [] c = 6 -> "Green"
      [] c = 7 -> "Orange"
      [] OTHER -> ""

polygon_of(p, points, c) ==
    IF ColorOf(c) = "" THEN Error(InvalidColor(c))
    ELSE Ok(p, [element |-> "Polygon", points |-> points, color |-> ColorOf(c)])

parse_polygon(in, p) ==
    Bind(tag(<<1>>, in, p), LAMBDA r1 :
    Bind(length_count("point", in, r1.pos), LAMBDA r2 :
    Bind(le_u8(in, r2.pos), LAMBDA r3 :
    polygon_of(r3.pos, r2.val, r3.val))))

\* Mutant of cross_section_of: the station is not checked.
cross_section_unchecked(p, position, station, direction) ==
    Ok(p, [element |-> "CrossSection", position |-> position,
           station |-> station, direction |-> direction])

cross_section_of(p, position, station, direction) ==
    IF station = StationNone THEN Error(UndefinedStation)
    ELSE Ok(p, [element |-> "CrossSection", position |-> position,
                station |-> station, direction |-> direction])

parse_cross_section(in, p) ==
    Bind(tag(<<3>>, in, p), LAMBDA r1 :
    Bind(parse_point(in, r1.pos), LAMBDA r2 :
    Bind(parse_station_id(in, r2.pos), LAMBDA r3 :
    Bind(le_i32(in, r3.pos), LAMBDA r4 :
    cross_section_of(r4.pos, r2.val, r3.val, r4.val)))))

\* branch::alt((f, g)) given both results: g's counts when f's is a
\* recoverable error (g runs only then); when both are, the errors are
\* combined with `or`.
alt(r1, r2) ==
    IF r1.kind # "Error" THEN r1
    ELSE IF r2.kind # "Error" THEN r2
    ELSE Error(append(or(r1.err, r2.err)))

parse_element(in, p) == alt(parse_polygon(in, p), parse_cross_section(in, p))

\* multi::many_till(parse_element, tag([0x0])): the terminator is tried
\* first, then an element; an element that consumes nothing is an error.
RECURSIVE many_till(_, _, _)
\* Mutant of many_till_step: any byte that starts no element ends the list.
many_till_step_any_end(in, p, res, g, f) ==
    IF p < Len(in) /\ in[p + 1] \notin {1, 3} THEN Ok(p + 1, res)
    ELSE IF f.kind = "Error" THEN Error(append(f.err))
    ELSE IF f.kind # "Ok" THEN f
    ELSE IF f.pos = p THEN Error(from_error_kind)
    ELSE many_till(in, f.pos, Append(res, f.val))

many_till_step(in, p, res, g, f) ==
    IF g.kind = "Ok" THEN Ok(g.pos, res)
    ELSE IF f.kind = "Error" THEN Error(append(f.err))
    ELSE IF f.kind # "Ok" THEN f
    ELSE IF f.pos = p THEN Error(from_error_kind)
    ELSE many_till(in, f.pos, Append(res, f.val))

many_till(in, p, res) ==
    many_till_step(in, p, res, tag(<<0>>, in, p), parse_element(in, p))

parse_drawing(in, p) ==
    Bind(parse_mapping(in, p), LAMBDA r1 :
    Bind(many_till(in, r1.pos, <<>>), LAMBDA r2 :
    Ok(r2.pos, [mapping |-> r1.val, elements |-> r2.val])))

-----------------------------------------------------------------------------
(* Header and version.                                                     *)

\* const HEADER: &[u8; 3] = b"Top"
HEADER == <<84, 111, 112>>
\* const VERSION: u8 = 0x3
VERSION == 3

\* input.chunks(HEADER.len()).next().unwrap_or(b"")
FirstChunk(in, n) == SubSeq(in, 1, IF Len(in) < n THEN Len(in) ELSE n)

\* Mutant of header_map_err: the tag's own error is returned.
header_err_unmapped(in, p, r) == r

\* tag(HEADER)(input).map_err(..) given the tag's result r
header_map_err(in, p, r) ==
    IF r.kind = "Ok" THEN r
    ELSE Failure(InvalidHeader(FirstChunk(SubSeq(in, p + 1, Len(in)), Len(HEADER))))

parse_header(in, p) == header_map_err(in, p, tag(HEADER, in, p))

\* Mutant of version_check: every version is accepted.
version_unchecked(r) == Ok(r.pos, r.val)

version_check(r) ==
    IF r.val # VERSION THEN Failure(UnsupportedVersion(r.val)) ELSE Ok(r.pos, r.val)

parse_version(in, p) == Bind(le_u8(in, p), LAMBDA r : version_check(r))

-----------------------------------------------------------------------------
(* parse and parse_internal as a state machine: one action per stage       *)
(* (`let (input, x) = parse_x(input)?;`).  `?` returns the stage's error,  *)
(* dropping what was decoded so far; finish() turns Error and Failure      *)
(* alike into Err(e).  A panic ends the call without a result.             *)

Unset == [unset |-> TRUE]

\* A sequence that is not bound yet.
UnsetSeq == <<Unset>>

\* Mutant of NextStage: the references are decoded before the shots.
NextStageReferencesFirst(stage) ==
    CASE stage = "header"     -> "version"
      [] stage = "version"    -> "trips"
      [] stage = "trips"      -> "references"
      [] stage = "references" -> "shots"
      [] stage = "shots"      -> "mapping"
      [] stage = "mapping"    -> "outline"
      [] stage = "outline"    -> "sideview"
      [] stage = "sideview"   -> "done"

\* The order of the statements of parse_internal.
NextStage(stage) ==
    CASE stage = "header"     -> "version"
      [] stage = "version"    -> "trips"
      [] stage = "trips"      -> "shots"
      [] stage = "shots"      -> "references"
      [] stage = "references" -> "mapping"
      [] stage = "mapping"    -> "outline"
      [] stage = "outline"    -> "sideview"
      [] stage = "sideview"   -> "done"

\* What every stage does with its parser's result r, besides binding the value.
Advance(stage, r) ==
    /\ spans' = Append(spans, <<stage, pos, IF r.kind = "Ok" THEN r.pos ELSE pos>>)
    /\ pos' = IF r.kind = "Ok" THEN r.pos ELSE pos
    /\ pc' = CASE r.kind = "Ok"    -> NextStage(stage)
               [] r.kind = "Panic" -> "panicked"
               [] OTHER            -> "failed"
    /\ error' = IF r.kind \in {"Error", "Failure"} THEN r.err ELSE error
    /\ UNCHANGED <<input, overflow_checks, out>>

Dropped ==
    /\ trips' = UnsetSeq
    /\ shots' = UnsetSeq
    /\ references' = UnsetSeq
    /\ mapping' = Unset
    /\ outline' = Unset
    /\ sideview' = Unset

\* A stage that binds nothing.
Checked(stage, r) ==
    /\ Advance(stage, r)
    /\ IF r.kind = "Ok"
       THEN UNCHANGED <<trips, shots, references, mapping, outline, sideview>>
       ELSE Dropped

ParseHeader == pc = "header" /\ Checked("header", parse_header(input, pos))

ParseVersion == pc = "version" /\ Checked("version", parse_version(input, pos))

TripsBound(r) ==
    /\ Advance("trips", r)
    /\ IF r.kind = "Ok"
       THEN /\ trips' = r.val
            /\ UNCHANGED <<shots, references, mapping, outline, sideview>>
       ELSE Dropped

ParseTrips == pc = "trips" /\ TripsBound(parse_trips(input, pos))

ShotsBound(r) ==
    /\ Advance("shots", r)
    /\ IF r.kind = "Ok"
       THEN /\ shots' = r.val
            /\ UNCHANGED <<trips, references, mapping, outline, sideview>>
       ELSE Dropped

ParseShots == pc = "shots" /\ ShotsBound(parse_shots(input, pos))

ReferencesBound(r) ==
    /\ Advance("references", r)
    /\ IF r.kind = "Ok"
       THEN /\ references' = r.val
            /\ UNCHANGED <<trips, shots, mapping, outline, sideview>>
       ELSE Dropped

ParseReferences == pc = "references" /\ ReferencesBound(parse_references(input, pos))

MappingBound(r) ==
    /\ Advance("mapping", r)
    /\ IF r.kind = "Ok"
       THEN /\ mapping' = r.val
            /\ UNCHANGED <<trips, shots, references, outline, sideview>>
       ELSE Dropped

ParseMapping == pc = "mapping" /\ MappingBound(parse_mapping(input, pos))

OutlineBound(r) ==
    /\ Advance("outline", r)
    /\ IF r.kind = "Ok"
       THEN /\ outline' = r.val
            /\ UNCHANGED <<trips, shots, references, mapping, sideview>>
       ELSE Dropped

ParseOutline == pc = "outline" /\ OutlineBound(parse_drawing(input, pos))

\* Mutant of SideviewBound: bytes after the sideview are rejected.
SideviewBoundAllConsuming(r) ==
    /\ Advance("sideview",
               IF r.kind = "Ok" /\ r.pos < Len(input) THEN Error(from_error_kind) ELSE r)
    /\ IF r.kind = "Ok" /\ r.pos = Len(input)
       THEN /\ sideview' = r.val
            /\ UNCHANGED <<trips, shots, references, mapping, outline>>
       ELSE Dropped

SideviewBound(r) ==
    /\ Advance("sideview", r)
    /\ IF r.kind = "Ok"
       THEN /\ sideview' = r.val
            /\ UNCHANGED <<trips, shots, references, mapping, outline>>
       ELSE Dropped

ParseSideview == pc = "sideview" /\ SideviewBound(parse_drawing(input, pos))

-----------------------------------------------------------------------------
(* The buffers the specifications start from.  Every byte sequence is an   *)
(* input parse accepts; these families are files laid out as the format    *)
(* says, with each part varied, and their damaged variants.                *)

MaxShort  == 4   \* arbitrary buffers over ShortAlphabet up to this length
MaxPoints == 2   \* points of the largest polygon
MaxGood   == 1   \* well-formed elements before a drawing's last element
MaxRun    == 10  \* continuation bytes of the longest varint
MaxShots  == 2   \* shots of the longest shot sequence

RECURSIVE Flatten(_)
Flatten(ss) == IF ss = <<>> THEN <<>> ELSE Head(ss) \o Flatten(Tail(ss))

RECURSIVE SeqsUpTo(_, _)
SeqsUpTo(S, n) ==
    IF n = 0 THEN {<<>>}
    ELSE LET shorter == SeqsUpTo(S, n - 1)
         IN  shorter \cup {Append(q, x) : q \in {t \in shorter : Len(t) = n - 1}, x \in S}

Prefixes(b) == {SubSeq(b, 1, n) : n \in 0 .. Len(b)}

\* n < 2^31, 4 bytes little endian
U32LE(n) == <<n % 256, (n \div 256) % 256, (n \div 65536) % 256, n \div 16777216>>
\* a string shorter than 128 bytes: its length in one byte, then the bytes
StrBytes(t) == <<Len(t)>> \o t

\* 2022-10-22T00:00:00 = 638019936000000000 ticks
TicksA    == <<0, 192, 229, 92, 192, 179, 218, 8>>
\* 2022-10-15T00:00:00.1234567 = 638013888001234567 ticks
TicksB    == <<135, 86, 20, 52, 64, 174, 218, 8>>
TripA     == TicksA \o StrBytes(<<116, 101, 115, 116>>) \o <<116, 2>>
TripB     == TicksB \o StrBytes(<<>>) \o <<170, 1>>

StUndef   == <<0, 0, 0, 128>>
StOneZero == <<0, 0, 1, 0>>
StOneOne  == <<1, 0, 1, 0>>
StPlain2  == <<3, 0, 0, 128>>

ShotBytes(from, to, flags, comment) ==
    from \o to \o U32LE(123450) \o <<28, 7>> \o <<85, 21>> \o <<flags, 0>>
         \o <<255, 255>> \o comment

RefBytes(st, comment) ==
    st \o <<1, 0, 0, 0, 0, 0, 0, 0>> \o <<254, 255, 255, 255, 255, 255, 255, 255>>
       \o U32LE(1500) \o StrBytes(comment)

PointBytes(i) == U32LE(i) \o <<256 - i, 255, 255, 255>>
MappingBytes(scale) == PointBytes(1) \o U32LE(scale)
PolygonBytes(n, color) ==
    <<1>> \o U32LE(n) \o Flatten([i \in 1 .. n |-> PointBytes(i)]) \o <<color>>
XsecBytes(st) == <<3>> \o PointBytes(5) \o st \o <<255, 255, 255, 255>>

CommentHi == <<104, 105>>

TripSecs == {U32LE(0), U32LE(1) \o TripA, U32LE(2) \o TripA \o TripB}
ShotSecs ==
    { U32LE(0),
      U32LE(1) \o ShotBytes(StOneZero, StUndef, 0, <<>>),
      U32LE(2) \o ShotBytes(StOneZero, StOneOne, 2, StrBytes(CommentHi))
               \o ShotBytes(StOneOne, StPlain2, 1, <<>>),
      U32LE(1) \o ShotBytes(StOneZero, StOneOne, 3, StrBytes(<<195, 40>>)) }
RefSecs == {U32LE(0), U32LE(1) \o RefBytes(StOneZero, CommentHi)}

\* n well-formed elements, polygons and cross-sections in turn
GoodElems(n) ==
    Flatten([i \in 1 .. n |->
                IF i % 2 = 1 THEN PolygonBytes(i % (MaxPoints + 1), 1 + (i % 7))
                ELSE XsecBytes(StOneOne)])

GoodLast ==
    {<<>>, PolygonBytes(0, 1), PolygonBytes(MaxPoints, 7),
     XsecBytes(StPlain2), XsecBytes(StOneZero)}
BadLast ==
    {PolygonBytes(MaxPoints, 0), PolygonBytes(MaxPoints, 8), PolygonBytes(0, 255),
     XsecBytes(StUndef)}

DrawingBytes(n, last, term) == MappingBytes(10) \o GoodElems(n) \o last \o term

GoodDrawings ==
    {DrawingBytes(n, last, <<0>>) : n \in 0 .. MaxGood, last \in GoodLast}
BadDrawings ==
    {DrawingBytes(n, last, <<0>>) : n \in 0 .. MaxGood, last \in BadLast}
    \cup {DrawingBytes(n, last, <<t>>) : n \in 0 .. MaxGood, last \in GoodLast,
                                        t \in {2, 255}}
EmptyDrawing == DrawingBytes(0, <<>>, <<0>>)

DocBytes(t, s, r, m, o, v) == HEADER \o <<VERSION>> \o t \o s \o r \o m \o o \o v

\* Files with every part varied: every choice of the record sequences in
\* front of two fixed pairs of drawings, and every pair of drawings behind
\* two fixed choices of the record sequences.  After a drawing that fails,
\* what follows is not varied.
RichDrawing == DrawingBytes(MaxGood, PolygonBytes(MaxPoints, 7), <<0>>)
DrawingPairs ==
    {<<o, v>> : o \in GoodDrawings, v \in GoodDrawings \cup BadDrawings}
    \cup {<<o, EmptyDrawing>> : o \in BadDrawings}
Docs ==
    {DocBytes(t, s, r, MappingBytes(50000), d[1], d[2]) :
        t \in TripSecs, s \in ShotSecs, r \in RefSecs,
        d \in {<<EmptyDrawing, EmptyDrawing>>, <<RichDrawing, RichDrawing>>}}
    \cup {DocBytes(q[1], q[2], q[3], MappingBytes(50000), d[1], d[2]) :
            q \in {<<U32LE(0), U32LE(0), U32LE(0)>>,
                   <<U32LE(1) \o TripA,
                     U32LE(1) \o ShotBytes(StOneZero, StUndef, 0, <<>>),
                     U32LE(1) \o RefBytes(StOneZero, CommentHi)>>},
            d \in DrawingPairs}

\* Files with no records and no elements; the mappings' bytes vary.
EmptyDocs ==
    {DocBytes(U32LE(0), U32LE(0), U32LE(0), m1, m2 \o <<0>>, m3 \o <<0>>) :
        m1 \in {MappingBytes(10), U32LE(0) \o U32LE(0) \o U32LE(0)},
        m2 \in {MappingBytes(10), U32LE(1) \o U32LE(3) \o U32LE(0)},
        m3 \in {MappingBytes(10), <<255, 255, 255, 255>> \o U32LE(0) \o U32LE(259)}}

RichDocs ==
    {DocBytes(U32LE(1) \o TripA,
              U32LE(1) \o ShotBytes(StOneZero, StOneOne, 2, StrBytes(CommentHi)),
              U32LE(1) \o RefBytes(StOneZero, CommentHi),
              MappingBytes(10),
              DrawingBytes(1, XsecBytes(StPlain2), <<0>>),
              DrawingBytes(0, PolygonBytes(MaxPoints, 7), <<0>>))}

\* Every prefix of a file: the buffer ends inside some field.
Truncated == UNION {Prefixes(d) : d \in RichDocs}

ShortAlphabet == {84, 111, 112, 79, 3, 2}
ShortBuffers == SeqsUpTo(ShortAlphabet, MaxShort)

\* A damaged magic or version in front of the rest of a file.
Bodies == {SubSeq(d, 5, Len(d)) : d \in RichDocs \cup EmptyDocs}
BadMagic ==
    {h \o <<v>> \o b : h \in {<<84, 79, 80>>, <<116, 111, 112>>, <<0, 111, 112>>},
                       v \in {VERSION, 2}, b \in Bodies}
BadVersion == {HEADER \o <<v>> \o b : v \in {0, 2, 4, 255}, b \in Bodies}

\* A trip whose tick count is negative.
TicksNeg == <<255, 255, 255, 255, 255, 255, 255, 255>>
NegTripDocs ==
    {DocBytes(U32LE(1) \o TicksNeg \o StrBytes(<<>>) \o <<0, 0>>, U32LE(0), U32LE(0),
              MappingBytes(10), EmptyDrawing, EmptyDrawing)}

\* A file that ends inside the length of a trip's comment, after a
\* continuation byte or before any byte of it.
CutVarint ==
    {HEADER \o <<VERSION>> \o U32LE(1) \o TicksA \o v : v \in {<<>>, <<130>>, <<255, 128>>}}

\* A trip whose comment is empty and has its length written with ten
\* continuation bytes, or with nine and a last group that has bits to lose.
LongVarintDocs ==
    {DocBytes(U32LE(1) \o TicksA \o [i \in 1 .. k |-> 128] \o <<t>> \o <<0, 0>>,
              U32LE(0), U32LE(0), MappingBytes(10), EmptyDrawing, EmptyDrawing) :
        k \in {9, 10}, t \in {0, 2}}

\* Files that declare far more records or points than they hold:
\* 2^32 - 1, 2^31 and 2^16, in front of none, one or two of them.
HugeCounts == {<<255, 255, 255, 255>>, <<0, 0, 0, 128>>, <<0, 0, 1, 0>>}
HugeCountDocs ==
    {DocBytes(c \o t, U32LE(0), U32LE(0), MappingBytes(10), EmptyDrawing, EmptyDrawing) :
        c \in HugeCounts, t \in {<<>>, TripA, TripA \o TripB}}
    \cup {DocBytes(U32LE(0), c \o q, U32LE(0), MappingBytes(10), EmptyDrawing, EmptyDrawing) :
        c \in HugeCounts, q \in {<<>>, ShotBytes(StOneZero, StPlain2, 0, <<>>)}}
    \cup {DocBytes(U32LE(0), U32LE(0), c \o q, MappingBytes(10), EmptyDrawing, EmptyDrawing) :
        c \in HugeCounts, q \in {<<>>, RefBytes(StOneZero, CommentHi)}}
    \cup {DocBytes(U32LE(0), U32LE(0), U32LE(0), MappingBytes(10),
                   MappingBytes(10) \o <<1>> \o c \o q \o <<1, 0>>, EmptyDrawing) :
        c \in HugeCounts, q \in {<<>>, PointBytes(1), PointBytes(1) \o PointBytes(2)}}

Buffers ==
    Docs \cup EmptyDocs \cup Truncated \cup ShortBuffers \cup BadMagic
         \cup BadVersion \cup NegTripDocs \cup CutVarint \cup LongVarintDocs
         \cup HugeCountDocs

Init ==
    /\ input \in Buffers
    /\ overflow_checks \in BOOLEAN
    /\ pc = "header"
    /\ pos = 0
    /\ trips = UnsetSeq
    /\ shots = UnsetSeq
    /\ references = UnsetSeq
    /\ mapping = Unset
    /\ outline = Unset
    /\ sideview = Unset
    /\ error = NoError
    /\ spans = <<>>
    /\ out = NoValue

Next ==
    \/ ParseHeader
    \/ ParseVersion
    \/ ParseTrips
    \/ ParseShots
    \/ ParseReferences
    \/ ParseMapping
    \/ ParseOutline
    \/ ParseSideview

Spec == Init /\ [][Next]_vars

-----------------------------------------------------------------------------
(* Unit specifications: one decoder applied to a buffer at offset 0.       *)

MaxStationLen == 5  \* bytes of the longest buffer handed to parse_station_id

UnitInit(inputs, start) ==
    /\ input \in inputs
    /\ overflow_checks \in BOOLEAN
    /\ pc = start
    /\ pos = 0
    /\ trips = UnsetSeq
    /\ shots = UnsetSeq
    /\ references = UnsetSeq
    /\ mapping = Unset
    /\ outline = Unset
    /\ sideview = Unset
    /\ error = NoError
    /\ spans = <<>>
    /\ out = NoValue

Applied(r) ==
    /\ out' = r
    /\ pc' = "applied"
    /\ UNCHANGED <<input, overflow_checks, pos, trips, shots, references, mapping,
                   outline, sideview, error, spans>>

\* parse_station_id
StationBytes  == {0, 1, 127, 128, 255}
StationInputs == SeqsUpTo(StationBytes, MaxStationLen)
InitStationId == UnitInit(StationInputs, "station_id")
ApplyStationId == pc = "station_id" /\ Applied(parse_station_id(input, 0))
SpecStationId == InitStationId /\ [][ApplyStationId]_vars

\* parse_variable_length_little_endian_int: k continuation bytes, all 0x80 but
\* at most one, or all 0xFF; then a terminating byte or none; then a tail.
Runs ==
    {[i \in 1 .. k |-> 255] : k \in 0 .. MaxRun}
    \cup {[i \in 1 .. k |-> IF i = j THEN c ELSE 128] :
            k \in 0 .. MaxRun, j \in 0 .. MaxRun, c \in {129, 130, 192}}
VarintInputs ==
    {r \o t \o z : r \in Runs, t \in {<<>>, <<0>>, <<1>>, <<2>>, <<127>>},
                   z \in {<<>>, <<5>>, <<128>>}}
InitVarint == UnitInit(VarintInputs, "varint")
ApplyVarint ==
    pc = "varint" /\ Applied(parse_variable_length_little_endian_int(input, 0))
SpecVarint == InitVarint /\ [][ApplyVarint]_vars

\* parse_shots: a count and that many shots, each with its own flags byte
\* and, behind the fixed part, a comment or nothing; then a tail.
FlagChoices == {0, 1, 2, 3, 252, 253, 254, 255}
ShotVariants ==
    {ShotBytes(StOneZero, StPlain2, f, <<>>) : f \in FlagChoices}
    \cup {ShotBytes(StOneOne, StUndef, f, c) :
            f \in {2, 3, 254, 255},
            c \in {StrBytes(<<>>), StrBytes(CommentHi), <<130, 0>> \o CommentHi}}
ShotsInputs ==
    {U32LE(Len(q)) \o Flatten(q) \o z :
        q \in SeqsUpTo(ShotVariants, MaxShots), z \in {<<>>, <<2, 104>>}}
InitShots == UnitInit(ShotsInputs, "shots")
ApplyShots == pc = "shots" /\ Applied(parse_shots(input, 0))
SpecShots == InitShots /\ [][ApplyShots]_vars

\* parse_datetime: tick counts of every sign and size, with and without a
\* part below the second; then a tail, or a cut before the eighth byte.
TicksNegSecond == <<128, 105, 103, 255, 255, 255, 255, 255>>  \* -10^7
TickLow  == {0, 1, 128, 255}
TickHigh == {0, 8, 127, 128, 247, 255}
TickBuffers ==
    {<<a, b, c>> \o m \o <<g, h>> :
        a \in TickLow, b \in TickLow, c \in {0, 255},
        m \in {<<0, 0, 0>>, <<92, 192, 179>>, <<255, 255, 255>>},
        g \in {0, 218, 255}, h \in TickHigh}
    \cup {TicksA, TicksB, TicksNeg, TicksNegSecond}
DatetimeInputs ==
    TickBuffers
    \cup {t \o <<7>> : t \in {TicksA, TicksB, TicksNeg}}
    \cup {SubSeq(TicksB, 1, n) : n \in 0 .. 7}
InitDatetime == UnitInit(DatetimeInputs, "datetime")
ApplyDatetime == pc = "datetime" /\ Applied(parse_datetime(input, 0))
SpecDatetime == InitDatetime /\ [][ApplyDatetime]_vars

\* parse is a sequential function: while a statement of parse_internal is
\* left to run, control moves on to the statement after it or returns.  The
\* buffers are files with huge counts, files that parse, files that abort
\* and files that end early.
LiveBuffers ==
    HugeCountDocs \cup RichDocs \cup EmptyDocs \cup NegTripDocs \cup LongVarintDocs
        \cup CutVarint \cup {SubSeq(d, 1, n) : d \in RichDocs, n \in {0, 3, 4, 40}}
InitLive == UnitInit(LiveBuffers, "header")
Statements == {"header", "version", "trips", "shots", "references", "mapping",
               "outline", "sideview"}
ControlMoves ==
    /\ pc \in Statements
    /\ pc' \in Statements \cup {"done", "failed", "panicked"}
    /\ pc' # pc
SpecLive == InitLive /\ [][Next]_vars /\ WF_pc(ControlMoves)

-----------------------------------------------------------------------------
(* parse called twice: on a buffer, and then on a buffer made from it.  out *)
(* keeps the first buffer and, field by field, the Document returned for   *)
(* it.                                                                     *)

\* The bytes that follow a file in its buffer.
Tails == {<<>>, <<0>>, <<1, 0, 0>>, <<255, 84>>}

TwiceDocs ==
    {DocBytes(t, s, r, MappingBytes(50000), d[1], d[2]) :
        t \in TripSecs, s \in ShotSecs, r \in RefSecs,
        d \in {<<EmptyDrawing, EmptyDrawing>>, <<RichDrawing, RichDrawing>>}}
    \cup RichDocs \cup EmptyDocs \cup LongVarintDocs \cup NegTripDocs
TwiceInputs == {d \o z : d \in TwiceDocs, z \in {<<>>, <<3, 1>>}}

\* The buffers of the second call: the n bytes consumed by the first call
\* with another tail, the first buffer again, and the consumed bytes with
\* the last one changed.
SecondBuffers(in, n) ==
    {SubSeq(in, 1, n) \o z : z \in Tails}
    \cup {in}
    \cup {[SubSeq(in, 1, n) EXCEPT ![n] = 2]}

\* Ok(document) as returned by parse, with the buffer and the bytes consumed.
Returned ==
    [of |-> input, pos |-> pos, trips |-> trips, shots |-> shots,
     references |-> references, mapping |-> mapping, outline |-> outline,
     sideview |-> sideview]

FirstCall == DOMAIN out = {}

InitTwice == UnitInit(TwiceInputs, "header")

\* parse has returned a Document; it is called again.
Reparse ==
    /\ pc = "done"
    /\ FirstCall
    /\ out' = Returned
    /\ input' \in SecondBuffers(input, pos)
    /\ pc' = "header"
    /\ pos' = 0
    /\ Dropped
    /\ error' = NoError
    /\ spans' = <<>>
    /\ UNCHANGED overflow_checks

NextTwice ==
    \/ ParseHeader
    \/ ParseVersion
    \/ ParseTrips
    \/ ParseShots
    \/ ParseReferences
    \/ ParseMapping
    \/ ParseOutline
    \/ ParseSideview
    \/ Reparse

SpecTwice == InitTwice /\ [][NextTwice]_vars

-----------------------------------------------------------------------------
(* Properties.  What a property expects is computed from the bytes of the  *)
(* buffer with the definitions below, not with the decoder's.              *)

Bit(b, t) == (b \div Pow2(t)) % 2

\* The number of bytes from offset o on that have bit 7 set.
RECURSIVE RunLen(_, _)
RunLen(in, o) == IF o < Len(in) /\ in[o + 1] >= 128 THEN 1 + RunLen(in, o + 1) ELSE 0

\* The value of a varint of k + 1 bytes at offset o, for k <= 3.
RECURSIVE SmallVarint(_, _, _)
SmallVarint(in, o, k) ==
    (in[o + k + 1] % 128) * Pow2(7 * k) + (IF k = 0 THEN 0 ELSE SmallVarint(in, o, k - 1))

\* C1.  The offset after the shots recs[i..], the first of them at offset o,
\* when every one of them is laid out as the format says: its flags byte is
\* the byte at o + 16; with bit 1 clear it has no comment and ends at o + 20;
\* with bit 1 set its comment is the string whose varint length starts at
\* o + 20, and it ends after the string's last byte.  -1 when one is not.
RECURSIVE ShotsEnd(_, _, _, _)
ShotsEnd(in, o, recs, i) ==
    IF i > Len(recs) THEN o
    ELSE IF o + 20 > Len(in) THEN -1
    ELSE LET flags == in[o + 17]
             has   == Bit(flags, 1) = 1
             k     == RunLen(in, o + 20)
             start == o + 20 + k + 1
             c     == recs[i].comment
         IN  IF ~has
             THEN IF c = None /\ recs[i].flags = flags
                  THEN ShotsEnd(in, o + 20, recs, i + 1) ELSE -1
             ELSE IF /\ c # None
                     /\ recs[i].flags = flags
                     /\ k <= 3
                     /\ start <= Len(in)
                     /\ Len(c[2]) = SmallVarint(in, o + 20, k)
                     /\ c[2] = SubSeq(in, start + 1, start + Len(c[2]))
                  THEN ShotsEnd(in, start + Len(c[2]), recs, i + 1) ELSE -1

\* C1: in every sequence of shots that parse_shots decodes, a shot has a
\* comment if and only if bit 1 of its flags byte is set; without it the shot
\* takes 20 bytes, with it 20 bytes and one length-prefixed string, and the
\* next shot (or what follows the sequence) starts right after; no other bit
\* of the flags changes this.
ShotCommentGating ==
    (pc = "applied" /\ out.kind = "Ok")
        => ShotsEnd(input, 4, out.val, 1) = out.pos

\* Two shots decoded: the first with a comment and all other flag bits set,
\* the second with bit 0 set and no comment.
ShotCommentGatingWitness ==
    /\ pc = "applied"
    /\ out.kind = "Ok"
    /\ Len(out.val) = 2
    /\ out.val[1].flags = 254
    /\ out.val[1].comment = Some(CommentHi)
    /\ out.val[2].flags = 1
    /\ out.val[2].comment = None
    /\ out.pos = 4 + 24 + 20

\* The value of a u32 below 2^31
U32Int(x) == x.hi * 65536 + x.lo

\* C2: parse_station_id on a buffer of at least 4 bytes b0 b1 b2 b3 (the
\* value v, little endian) consumes 4 bytes and returns no station for
\* v = 0x80000000, else Plain((v XOR 0x80000000) - 1) when the top bit of v
\* is set, without underflow, else MajorMinor(v >> 16, v AND 0xFFFF).
StationIdDecoding ==
    (pc = "applied" /\ Len(input) >= 4) =>
        LET b0 == input[1]
            b1 == input[2]
            b2 == input[3]
            b3 == input[4]
        IN  /\ out.kind = "Ok"
            /\ out.pos = 4
            /\ IF b0 = 0 /\ b1 = 0 /\ b2 = 0 /\ b3 = 128
               THEN out.val = StationNone
               ELSE IF b3 >= 128
               THEN /\ out.val[1] = "Plain"
                    /\ out.val[2].hi < 32768
                    /\ U32Int(out.val[2]) + 1
                         = b0 + 256 * b1 + 65536 * b2 + 16777216 * (b3 - 128)
               ELSE out.val = MajorMinor(b2 + 256 * b3, b0 + 256 * b1)

\* FF FF FF FF decodes to Plain(2147483646).
StationIdDecodingWitness ==
    /\ pc = "applied"
    /\ Len(input) >= 4
    /\ SubSeq(input, 1, 4) = <<255, 255, 255, 255>>
    /\ out.kind = "Ok"
    /\ out.val[1] = "Plain"
    /\ out.val[2] = U32(32767, 65534)

\* The index of the first byte of the buffer with bit 7 clear, 0 if none.
FirstTerminator(in) ==
    IF \E i \in 1 .. Len(in) : in[i] < 128
    THEN CHOOSE i \in 1 .. Len(in) : in[i] < 128 /\ \A j \in 1 .. i - 1 : in[j] >= 128
    ELSE 0

\* The word w is the sum over i = 0..k of (in[i + 1] AND 0x7F) * 2^(7 * i):
\* bit j of w is bit j mod 7 of byte j div 7, and the sum has no bit past
\* the word.
WordIsVarintSum(w, in, k) ==
    /\ \A j \in WordBits :
          w[j] = IF j \div 7 <= k THEN Bit(in[(j \div 7) + 1], j % 7) ELSE 0
    /\ \A i \in 0 .. k : \A t \in 0 .. 6 :
          7 * i + t >= USIZE_BITS => Bit(in[i + 1], t) = 0

\* C3: on a buffer that starts with k bytes with bit 7 set and then a byte
\* with bit 7 clear, the varint decoder consumes these k + 1 bytes and
\* returns the sum of their low 7 bits, the i-th shifted left by 7 * i.
VarintSum ==
    (pc = "applied" /\ FirstTerminator(input) > 0) =>
        /\ out.kind = "Ok"
        /\ out.pos = FirstTerminator(input)
        /\ WordIsVarintSum(out.val, input, FirstTerminator(input) - 1)

-----------------------------------------------------------------------------
(* Properties of parse.                                                    *)

Running == {"header", "version", "trips", "shots", "references", "mapping",
            "outline", "sideview"}
Magic == <<84, 111, 112>>
HasMagic(in) == Len(in) >= 3 /\ SubSeq(in, 1, 3) = Magic
AllDropped ==
    /\ trips = UnsetSeq
    /\ shots = UnsetSeq
    /\ references = UnsetSeq
    /\ mapping = Unset
    /\ outline = Unset
    /\ sideview = Unset

\* C4: a buffer whose first 3 bytes are not 'T', 'o', 'p', or that has fewer
\* than 3 bytes, fails with InvalidHeader carrying its first min(3, length)
\* bytes, whatever follows.
HeaderCheck ==
    (pc # "header" /\ ~HasMagic(input)) =>
        /\ pc = "failed"
        /\ error.tag = "InvalidHeader"
        /\ error.arg = SubSeq(input, 1, IF Len(input) < 3 THEN Len(input) ELSE 3)

\* The two byte buffer "To" has failed with InvalidHeader("To").
HeaderCheckWitness ==
    /\ pc = "failed"
    /\ input = <<84, 111>>
    /\ error.tag = "InvalidHeader"
    /\ error.arg = <<84, 111>>

\* C5: a buffer that starts with "Top" and whose fourth byte v is not 3 fails
\* with UnsupportedVersion(v), whatever follows, and nothing after the
\* version is decoded.
VersionCheck ==
    (pc \notin {"header", "version"} /\ HasMagic(input) /\ Len(input) >= 4
        /\ input[4] # 3) =>
        /\ pc = "failed"
        /\ error.tag = "UnsupportedVersion"
        /\ error.arg = <<input[4]>>
        /\ Len(spans) = 2
        /\ AllDropped

\* "Top", version 255 and the rest of a file have failed with
\* UnsupportedVersion(255).
VersionCheckWitness ==
    /\ pc = "failed"
    /\ Len(input) > 50
    /\ HasMagic(input)
    /\ input[4] = 255
    /\ error.tag = "UnsupportedVersion"
    /\ error.arg = <<255>>

\* The count at offset o when it is below 2^24, else -1.
SmallCount(in, o) ==
    IF in[o + 4] # 0 THEN -1 ELSE in[o + 1] + 256 * in[o + 2] + 65536 * in[o + 3]

\* The offset after the records recs[i..] when they are, in this order, what
\* the record decoder reads from offset o on, one right after the other;
\* -1 when they are not.
RECURSIVE RecordsEnd(_, _, _, _, _)
RecordsEnd(kind, in, o, recs, i) ==
    IF i > Len(recs) THEN o
    ELSE LET r == parse_record(kind, in, o)
         IN  IF r.kind = "Ok" /\ r.val = recs[i]
             THEN RecordsEnd(kind, in, r.pos, recs, i + 1)
             ELSE -1

\* The stage with span sp decoded recs: as many as the count at its start,
\* in file order, and it stopped right after the last.
SequenceAsCounted(kind, sp, recs) ==
    /\ sp[2] + 4 <= Len(input)
    /\ Len(recs) = SmallCount(input, sp[2])
    /\ RecordsEnd(kind, input, sp[2] + 4, recs, 1) = sp[3]
    /\ (recs = <<>> => sp[3] = sp[2] + 4)

\* A file with three zero counts, a mapping and two drawings that are a
\* mapping and the 0x00 terminator.
IsEmptyDocument(in) ==
    /\ Len(in) >= 54
    /\ HasMagic(in)
    /\ in[4] = 3
    /\ \A i \in 5 .. 16 : in[i] = 0
    /\ in[41] = 0
    /\ in[54] = 0

\* C6: after a successful parse each of trips, shots and references has as
\* many records as its count says, in file order, with nothing consumed
\* after the last; a zero count takes 4 bytes; and an empty document parses
\* to a Document whose sequences and element lists are empty.
LengthPrefixedSequences ==
    /\ pc = "done" =>
          /\ SequenceAsCounted("trip", spans[3], trips)
          /\ SequenceAsCounted("shot", spans[4], shots)
          /\ SequenceAsCounted("reference", spans[5], references)
    /\ IsEmptyDocument(input) =>
          /\ pc \in Running \cup {"done"}
          /\ pc = "done" =>
                /\ trips = <<>>
                /\ shots = <<>>
                /\ references = <<>>
                /\ outline.elements = <<>>
                /\ sideview.elements = <<>>
                /\ pos = 54

\* A Document with two trips, two shots and a reference.
LengthPrefixedSequencesWitness ==
    /\ pc = "done"
    /\ Len(trips) = 2
    /\ Len(shots) = 2
    /\ Len(references) = 1

\* The order of the stages.
Stages == <<"header", "version", "trips", "shots", "references", "mapping",
            "outline", "sideview">>

\* What the stage's decoder returns at offset p.
StageResult(stage, in, p) ==
    CASE stage = "header"     -> parse_header(in, p)
      [] stage = "version"    -> parse_version(in, p)
      [] stage = "trips"      -> parse_trips(in, p)
      [] stage = "shots"      -> parse_shots(in, p)
      [] stage = "references" -> parse_references(in, p)
      [] stage = "mapping"    -> parse_mapping(in, p)
      [] stage = "outline"    -> parse_drawing(in, p)
      [] stage = "sideview"   -> parse_drawing(in, p)

\* C7: the stages run in the order header, version, trips, shots,
\* references, mapping, outline, sideview; each starts at the offset where
\* the one before stopped, the first at 0; a stage runs only after all
\* before it succeeded; and the error returned is that of the stage that
\* failed, which is the last one run.
AssemblyOrder ==
    /\ Len(spans) <= 8
    /\ \A i \in 1 .. Len(spans) :
          /\ spans[i][1] = Stages[i]
          /\ spans[i][2] = IF i = 1 THEN 0 ELSE spans[i - 1][3]
          /\ spans[i][3] >= spans[i][2]
          /\ (i < Len(spans) \/ pc \in Running \cup {"done"}) =>
                /\ StageResult(Stages[i], input, spans[i][2]).kind = "Ok"
                /\ StageResult(Stages[i], input, spans[i][2]).pos = spans[i][3]
    /\ pc \in Running => (Len(spans) < 8 /\ pc = Stages[Len(spans) + 1])
    /\ pc \in Running \cup {"done"} =>
          (error = NoError /\ pos = IF spans = <<>> THEN 0 ELSE spans[Len(spans)][3])
    /\ pc = "done" => Len(spans) = 8
    /\ pc = "failed" =>
          /\ spans # <<>>
          /\ StageResult(Stages[Len(spans)], input, spans[Len(spans)][2]).kind
                \in {"Error", "Failure"}
          /\ error = StageResult(Stages[Len(spans)], input, spans[Len(spans)][2]).err

\* The references stage has failed, after the shots stage consumed bytes.
AssemblyOrderWitness ==
    /\ pc = "failed"
    /\ Len(spans) = 5
    /\ spans[4][3] > spans[4][2] + 4
    /\ error.tag = "UnknownError"

\* How a walk stopped: "term" at a 0x00, "other" at another byte that
\* starts no element, "end" at the end of the buffer, "broken" at an element
\* that the buffer cuts short, "color" at a complete polygon whose color
\* byte is outside 1..7, "undef" at a complete cross-section whose station
\* is 0x80000000. seen lists <<tag, color byte>> of the elements passed.
Stopped(stop, o, seen, byte) ==
    [stop |-> stop, at |-> o, seen |-> seen, byte |-> byte]

\* The offset after the polygon at offset o, whose tag is in[o + 1]; -1 when
\* the buffer ends before its color byte.
PolygonEnd(in, o) ==
    IF o + 5 > Len(in) \/ SmallCount(in, o + 1) < 0 THEN -1
    ELSE IF SmallCount(in, o + 1) > Len(in) THEN -1
    ELSE IF o + 6 + 8 * SmallCount(in, o + 1) > Len(in) THEN -1
    ELSE o + 6 + 8 * SmallCount(in, o + 1)

\* The layout of the element stream from offset o on, read off the bytes.
RECURSIVE ElemWalk(_, _, _)
ElemWalk(in, o, seen) ==
    IF o >= Len(in) THEN Stopped("end", o, seen, -1)
    ELSE IF in[o + 1] = 0 THEN Stopped("term", o, seen, 0)
    ELSE IF in[o + 1] = 1 THEN
        IF PolygonEnd(in, o) < 0 THEN Stopped("broken", o, seen, 1)
        ELSE IF in[PolygonEnd(in, o)] \notin 1 .. 7
             THEN Stopped("color", o, seen, in[PolygonEnd(in, o)])
        ELSE ElemWalk(in, PolygonEnd(in, o),
                      Append(seen, <<1, in[PolygonEnd(in, o)]>>))
    ELSE IF in[o + 1] = 3 THEN
        IF o + 17 > Len(in) THEN Stopped("broken", o, seen, 3)
        ELSE IF SubSeq(in, o + 10, o + 13) = <<0, 0, 0, 128>>
             THEN Stopped("undef", o, seen, 3)
        ELSE ElemWalk(in, o + 17, Append(seen, <<3, 0>>))
    ELSE Stopped("other", o, seen, in[o + 1])

\* The stages of the two drawings.
DrawingStages == {7, 8}
DrawingOf(i) == IF i = 7 THEN outline ELSE sideview

\* Stage i has run and the buffer holds the mapping of its drawing.
DrawingRun(i) == Len(spans) >= i /\ spans[i][2] + 12 <= Len(input)

\* Stage i has succeeded and its drawing is held.
DrawingSet(i) == Len(spans) >= i /\ pc \in Running \cup {"done"}

\* Stage i has run and failed.
FailedAt(i) == pc = "failed" /\ Len(spans) = i

\* Tag 1 for a polygon and 3 for a cross-section.
TagOf(e) == IF e.element = "Polygon" THEN 1 ELSE 3

\* The elements es are those of the walk w: as many, with the same tags.
SameElements(es, w) ==
    /\ Len(es) = Len(w.seen)
    /\ \A k \in 1 .. Len(es) : TagOf(es[k]) = w.seen[k][1]

\* C8 for the walk w of the drawing of stage i.
TerminatesAt(i, w) ==
    /\ w.stop = "term" =>
          /\ ~FailedAt(i)
          /\ spans[i][3] = w.at + 1
          /\ DrawingSet(i) => SameElements(DrawingOf(i).elements, w)
    /\ w.stop \in {"other", "end"} =>
          /\ FailedAt(i)
          /\ error # NoError
          /\ AllDropped

\* C8: the element stream of a drawing stops at the first byte at an element
\* start that is neither 0x01 nor 0x03; a 0x00 there is consumed and the
\* Drawing holds the elements before it in file order; any other byte there,
\* or the end of the buffer, fails the parse.
DrawingTermination ==
    \A i \in DrawingStages :
        DrawingRun(i) => TerminatesAt(i, ElemWalk(input, spans[i][2] + 12, <<>>))

\* The sideview's stream, after an element, stops at a byte that is neither
\* a tag nor 0x00, and the parse has failed.
DrawingTerminationWitness ==
    /\ FailedAt(8)
    /\ DrawingRun(8)
    /\ ElemWalk(input, spans[8][2] + 12, <<>>).stop = "other"
    /\ ElemWalk(input, spans[8][2] + 12, <<>>).seen # <<>>

\* The color of a byte in 1..7.
ColorNames == <<"Black", "Gray", "Brown", "Blue", "Red", "Green", "Orange">>

\* The polygons among the elements es have the colors of the walk w.
SameColors(es, w) ==
    \A k \in 1 .. Len(es) :
        es[k].element = "Polygon" => es[k].color = ColorNames[w.seen[k][2]]

\* C9 for the walk w of the drawing of stage i.
ColorAt(i, w) ==
    /\ w.stop = "color" =>
          /\ FailedAt(i)
          /\ error.tag = "InvalidColor"
          /\ error.arg = <<w.byte>>
    /\ (w.stop = "term" /\ DrawingSet(i)) =>
          SameColors(DrawingOf(i).elements, w)

\* C9: a complete polygon of the outline or the sideview whose color byte c
\* is not in 1..7 makes parse return InvalidColor(c); the bytes 1..7 are
\* Black, Gray, Brown, Blue, Red, Green, Orange.
InvalidColorReturned ==
    \A i \in DrawingStages :
        DrawingRun(i) => ColorAt(i, ElemWalk(input, spans[i][2] + 12, <<>>))

\* The mapping of the color bytes alone, which holds.
ColorMapping ==
    \A i \in DrawingStages :
        (DrawingRun(i) /\ DrawingSet(i)) =>
            SameColors(DrawingOf(i).elements,
                       ElemWalk(input, spans[i][2] + 12, <<>>))

\* What parse returns for an invalid color byte.
InvalidColorIsUnknownError ==
    \A i \in DrawingStages :
        (DrawingRun(i) /\ ElemWalk(input, spans[i][2] + 12, <<>>).stop = "color")
            => (FailedAt(i) /\ error = UnknownError)

\* Every cross-section among the elements es has a station.
StationsDefined(es) ==
    \A k \in 1 .. Len(es) :
        es[k].element = "CrossSection" => es[k].station # StationNone

\* C10 for the walk w of the drawing of stage i.
UndefinedAt(i, w) ==
    /\ w.stop = "undef" =>
          /\ FailedAt(i)
          /\ error = UndefinedStation
          /\ AllDropped
    /\ DrawingSet(i) => StationsDefined(DrawingOf(i).elements)

\* C10: a complete cross-section of the outline or the sideview whose
\* station is 0x80000000 makes parse return UndefinedStation and no
\* Document; the cross-sections of a Document all have a station.
UndefinedStationReturned ==
    \A i \in DrawingStages :
        DrawingRun(i) => UndefinedAt(i, ElemWalk(input, spans[i][2] + 12, <<>>))

\* The sideview, after an element, holds a complete cross-section with
\* station 0x80000000, and the parse has failed with UndefinedStation.
UndefinedStationReturnedWitness ==
    /\ FailedAt(8)
    /\ DrawingRun(8)
    /\ ElemWalk(input, spans[8][2] + 12, <<>>).stop = "undef"
    /\ ElemWalk(input, spans[8][2] + 12, <<>>).seen # <<>>
    /\ error = UndefinedStation

-----------------------------------------------------------------------------
(* Properties of parse_datetime.  A tick count t is read off the buffer as *)
(* sign and magnitude, the magnitude as three limbs <<a, b, c>> for        *)
(* (a * 10^7 + b) * 10^7 + c.                                              *)

TicksPerSecond == 10000000
EpochSeconds   == <<6213, 5596800>>   \* 62,135,596,800 as hi * 10^7 + lo

\* t mod 10^7, in 0 .. 10^7 - 1.
TicksMod(t) ==
    IF ~t.neg \/ t.mag[3] = 0 THEN t.mag[3] ELSE TicksPerSecond - t.mag[3]

\* -t div 10^7 for a negative t, rounded up: the seconds before the epoch.
SecondsBefore(t) ==
    IF t.mag[3] = 0 THEN <<t.mag[1], t.mag[2]>>
    ELSE IF t.mag[2] + 1 = TicksPerSecond THEN <<t.mag[1] + 1, 0>>
    ELSE <<t.mag[1], t.mag[2] + 1>>

\* -(hi * 10^7 + lo) as hi' * 10^7 + lo' with 0 <= lo' < 10^7.
Negated(q) ==
    IF q[2] = 0 THEN <<-q[1], 0>> ELSE <<-q[1] - 1, TicksPerSecond - q[2]>>

\* t div 10^7, rounded down.
TicksDiv(t) ==
    IF t.neg THEN Negated(SecondsBefore(t)) ELSE <<t.mag[1], t.mag[2]>>

\* q - 62,135,596,800
UnixSeconds(q) ==
    IF q[2] >= EpochSeconds[2]
    THEN <<q[1] - EpochSeconds[1], q[2] - EpochSeconds[2]>>
    ELSE <<q[1] - EpochSeconds[1] - 1, q[2] - EpochSeconds[2] + TicksPerSecond>>

\* The whole-second part of the decoded timestamp is (t div 10^7) minus the
\* epoch offset.
SecondsExact(t) ==
    /\ out.kind = "Ok"
    /\ out.val.seconds = UnixSeconds(TicksDiv(t))

\* The nanosecond part of the decoded timestamp is (t mod 10^7) * 100.
NanosExact(t) ==
    /\ out.kind = "Ok"
    /\ out.val.nsecs = TicksMod(t) * 100

\* C11: the timestamp decoded from the tick count t is t * 100 nanoseconds
\* after the epoch: its seconds are (t div 10^7) - 62,135,596,800 and its
\* nanoseconds (t mod 10^7) * 100.
DatetimeExact ==
    (pc = "applied" /\ Len(input) >= 8) =>
        /\ SecondsExact(I64OfBytes(SubSeq(input, 1, 8)))
        /\ NanosExact(I64OfBytes(SubSeq(input, 1, 8)))

\* What holds of the conversion: a tick count that is a whole number of
\* seconds is decoded exactly, and the seconds of a non-negative one are
\* exact.
DatetimeWholeSeconds ==
    (pc = "applied" /\ Len(input) >= 8) =>
        /\ I64OfBytes(SubSeq(input, 1, 8)).mag[3] = 0 => DatetimeExact
        /\ ~I64OfBytes(SubSeq(input, 1, 8)).neg =>
              SecondsExact(I64OfBytes(SubSeq(input, 1, 8)))

\* What the code does with the part below the second of a non-negative tick
\* count: the ticks are taken as nanoseconds.
DatetimeTicksAsNanos ==
    (pc = "applied" /\ Len(input) >= 8 /\ ~I64OfBytes(SubSeq(input, 1, 8)).neg) =>
        (out.kind = "Ok" /\ out.val.nsecs = TicksMod(I64OfBytes(SubSeq(input, 1, 8))))

-----------------------------------------------------------------------------
(* Properties of parse on buffers that end early.                          *)

\* The buffers that pass the header and version checks and end before the
\* last byte of a file, or inside a varint.
CutFiles ==
    UNION {{SubSeq(d, 1, n) : n \in 4 .. Len(d) - 1} : d \in RichDocs}
    \cup CutVarint

\* C12: a buffer that passes the header and version checks and ends before
\* a required read is complete makes parse return an error that is not the
\* generic fallback UnknownError, and no Document.
TruncationReported ==
    (input \in CutFiles /\ pc \notin Running) =>
        /\ pc = "failed"
        /\ error.tag # "UnknownError"
        /\ AllDropped

\* What parse returns on these buffers: the generic fallback, and no
\* Document.
TruncationIsUnknownError ==
    (input \in CutFiles /\ pc \notin Running) =>
        /\ pc = "failed"
        /\ error = UnknownError
        /\ AllDropped

-----------------------------------------------------------------------------
(* Properties of how parse ends.                                           *)

ErrorTags == {"InvalidColor", "InvalidHeader", "UndefinedStation",
              "UnknownError", "UnsupportedVersion", "Utf8Error"}

\* C13: parse ends with a Document or with one of the ParseError values; no
\* buffer makes it abort with a panic or an overflow.
AllErrorsReturned ==
    /\ pc # "panicked"
    /\ pc = "failed" => error.tag \in ErrorTags
    /\ pc = "done" => error = NoError

\* What holds: a parse that does not abort ends with a Document or with one
\* of the ParseError values, and an abort happens in the trips, shots or
\* references only (the stages that decode datetimes and string lengths).
ReturnsUnlessAborted ==
    /\ pc = "failed" => error.tag \in ErrorTags
    /\ pc = "done" => error = NoError
    /\ pc = "panicked" => (Len(spans) \in 3 .. 5 /\ error = NoError /\ AllDropped)

\* Without overflow checks the only abort is that of a datetime.
AbortsWithoutChecks ==
    (pc = "panicked" /\ ~overflow_checks) => input \in NegTripDocs

-----------------------------------------------------------------------------
(* Properties of two calls of parse.                                       *)

\* The second call has ended, and its buffer has the bytes that the first
\* call consumed.
SecondOnSamePrefix ==
    /\ ~FirstCall
    /\ pc \notin Running
    /\ Len(input) >= out.pos
    /\ SubSeq(input, 1, out.pos) = SubSeq(out.of, 1, out.pos)

\* C14: when parse succeeds on a buffer and consumes its first n bytes, the
\* last of them the 0x00 that ends the sideview, parse succeeds with an
\* equal Document on every buffer with the same first n bytes, whatever
\* follows them; so also on the same buffer again.
ConsumedPrefixDetermines ==
    SecondOnSamePrefix =>
        /\ pc = "done"
        /\ pos = out.pos
        /\ out.of[out.pos] = 0
        /\ trips = out.trips
        /\ shots = out.shots
        /\ references = out.references
        /\ mapping = out.mapping
        /\ outline = out.outline
        /\ sideview = out.sideview

\* A Document with records and elements was returned for a buffer, and
\* again for its consumed bytes followed by other bytes.
ConsumedPrefixDeterminesWitness ==
    /\ SecondOnSamePrefix
    /\ pc = "done"
    /\ Len(out.of) = out.pos
    /\ SubSeq(input, out.pos + 1, Len(input)) = <<1, 0, 0>>
    /\ Len(trips) = 2
    /\ Len(outline.elements) = 2

-----------------------------------------------------------------------------
(* Properties of the loops of parse.                                       *)

Halted == pc \in {"done", "failed", "panicked"}

\* Every iteration of the loop over records of this kind that starts at
\* offset o ends after the offset where it started, as long as records are
\* decoded.
RECURSIVE RecordsConsume(_, _)
RecordsConsume(kind, o) ==
    \/ o > Len(input)
    \/ parse_record(kind, input, o).kind # "Ok"
    \/ /\ parse_record(kind, input, o).pos > o
       /\ RecordsConsume(kind, parse_record(kind, input, o).pos)

\* The same for the loop over elements, and for the points of each polygon.
RECURSIVE ElementsConsume(_)
ElementsConsume(o) ==
    /\ (o < Len(input) /\ input[o + 1] = 1) => RecordsConsume("point", o + 5)
    /\ \/ o > Len(input)
       \/ parse_element(input, o).kind # "Ok"
       \/ /\ parse_element(input, o).pos > o
          /\ ElementsConsume(parse_element(input, o).pos)

\* The loop of the stage that is about to run makes progress in every
\* iteration.
IterationsConsume ==
    /\ pc = "trips" => RecordsConsume("trip", pos + 4)
    /\ pc = "shots" => RecordsConsume("shot", pos + 4)
    /\ pc = "references" => RecordsConsume("reference", pos + 4)
    /\ pc \in {"outline", "sideview"} => ElementsConsume(pos + 12)

\* The points of the polygons es[i..].
RECURSIVE PointsIn(_, _)
PointsIn(es, i) ==
    IF i > Len(es) THEN 0
    ELSE (IF es[i].element = "Polygon" THEN Len(es[i].points) ELSE 0)
         + PointsIn(es, i + 1)

\* A Document has no more records, elements and points than its buffer has
\* bytes.
DecodedWithinBuffer ==
    pc = "done" =>
        Len(trips) + Len(shots) + Len(references)
        + Len(outline.elements) + PointsIn(outline.elements, 1)
        + Len(sideview.elements) + PointsIn(sideview.elements, 1) <= Len(input)

\* A count of 2^16 or more, in a buffer that holds fewer records than that,
\* ends the parse without a Document.
HugeCountFails ==
    (input \in HugeCountDocs /\ pc \notin Running) => pc = "failed"

\* The statement that is left to run returns a result or aborts: the step
\* of parse_internal at this statement is defined.
StepDefined ==
    pc \in Running =>
        StageResult(pc, input, pos).kind \in {"Ok", "Error", "Failure", "Panic"}

\* A step runs one statement: control leaves it, one more stage has run, and
\* the cursor stays within the buffer and does not move back.
StageAdvances ==
    /\ pc \in Running
    /\ pc' # pc
    /\ Len(spans') = Len(spans) + 1
    /\ pos' >= pos
    /\ pos' <= Len(input)

\* C15: parse halts on every buffer; an iteration of a counted loop or of
\* the element loop consumes at least a byte or ends the parse, so what is
\* decoded is bounded by the length of the buffer, also under a declared
\* count of up to 2^32 - 1.
Termination ==
    /\ [](IterationsConsume /\ DecodedWithinBuffer /\ HugeCountFails /\ StepDefined)
    /\ [][StageAdvances]_<<pc, pos, spans>>
    /\ <>Halted

\* A file that declares 2^32 - 1 trips and holds two has failed in the
\* trips.
TerminationWitness ==
    /\ pc = "failed"
    /\ Len(spans) = 3
    /\ Len(input) > 50
    /\ SubSeq(input, 5, 8) = <<255, 255, 255, 255>>
    /\ parse_trip(input, 8).kind = "Ok"
    /\ parse_trip(input, parse_trip(input, 8).pos).kind = "Ok"

====
